---- MODULE Spec2Model ----
(***************************************************************************)
(* hyperpwn (src/index.js): a Hyper terminal plugin whose redux middleware *)
(* cuts debugger "context" blocks out of the SESSION_PTY_DATA stream,      *)
(* stores the per-view segments in per-session histories and replays them. *)
(*                                                                         *)
(* Text is a sequence of characters (UTF-16 code units).  A printable      *)
(* ASCII character is the one-character string itself; the others are      *)
(* named:  "CR" = \r (U+000D)   "LF" = \n (U+000A)   "TAB" = \t (U+0009)   *)
(*         "ESC" = U+001B       "HR" = U+2500 (box drawing horizontal)     *)
(*         "ELL" = U+2026 (the ellipsis cli-truncate appends)              *)
(*         "BEL" = U+0007       "CSI" = U+009B                             *)
(***************************************************************************)
EXTENDS Integers, Sequences, FiniteSets, TLC

Min(S) == CHOOSE x \in S : \A y \in S : x <= y

\* s.substr(from) for a 0-based offset `from`
SubstrFrom(s, from) == SubSeq(s, from + 1, Len(s))

\* s.substr(from, n): n <= 0 yields the empty string, n is clipped to the end
Substr(s, from, n) ==
    IF n <= 0 \/ from >= Len(s) THEN << >>
    ELSE SubSeq(s, from + 1, IF from + n > Len(s) THEN Len(s) ELSE from + n)

\* hay.includes(needle)
Includes(hay, needle) ==
    \E p \in 1..(Len(hay) + 1) :
        /\ p + Len(needle) - 1 <= Len(hay)
        /\ \A i \in 1..Len(needle) : hay[p + i - 1] = needle[i]

\* the characters `.` does not match and after which ^ (flag m) matches
IsLT(c) == c \in {"CR", "LF"}

\* case folding of the i flag on the letters of the start marker
Fold(c) ==
    CASE c = "L" -> "l" [] c = "E" -> "e" [] c = "G" -> "g"
      [] c = "N" -> "n" [] c = "D" -> "d" [] OTHER -> c

\* ^ under flag m, at 1-based position p
LineStart(s, p) == p = 1 \/ IsLT(s[p - 1])

\* 1-based position just after the line that contains position p
RECURSIVE LineEnd(_, _)
LineEnd(s, p) == IF p > Len(s) \/ IsLT(s[p]) THEN p ELSE LineEnd(s, p + 1)

----------------------------------------------------------------------------
\* The announcement pattern of line 140: start of chunk, " hyperpwn ", a name
\* without line terminators, CR LF CR LF, end of chunk (no flags).

ViewPrefix == <<" ", "h", "y", "p", "e", "r", "p", "w", "n", " ">>
ViewSuffix == <<"CR", "LF", "CR", "LF">>

ViewExec(data) ==
    LET n == Len(data)
        name == SubSeq(data, Len(ViewPrefix) + 1, n - Len(ViewSuffix))
        ok == /\ n >= Len(ViewPrefix) + Len(ViewSuffix)
              /\ SubSeq(data, 1, Len(ViewPrefix)) = ViewPrefix
              /\ SubSeq(data, n - Len(ViewSuffix) + 1, n) = ViewSuffix
              /\ \A i \in 1..Len(name) : ~IsLT(name[i])
    IN  [found |-> ok, name |-> IF ok THEN name ELSE << >>]

----------------------------------------------------------------------------
\* The start marker of line 152: at a line start (flag m), an optional "[ ",
\* then "legend:" in any case (flag i); the leftmost match in one chunk.

LegendWord == <<"l", "e", "g", "e", "n", "d", ":">>

WordAt(s, p, w) ==
    /\ p + Len(w) - 1 <= Len(s)
    /\ \A i \in 1..Len(w) : Fold(s[p + i - 1]) = w[i]

\* length of the match that starts at 1-based p, 0 when there is none
LegendLenAt(s, p) ==
    IF ~LineStart(s, p) THEN 0
    ELSE IF WordAt(s, p, <<"[", " ">>) /\ WordAt(s, p + 2, LegendWord)
         THEN 2 + Len(LegendWord)
    ELSE IF WordAt(s, p, LegendWord) THEN Len(LegendWord)
    ELSE 0

\* index is 0-based as in the RegExp result
LegendExec(data) ==
    LET ps == {p \in 1..Len(data) : LegendLenAt(data, p) > 0}
    IN  IF ps = {} THEN [found |-> FALSE, index |-> 0, len |-> 0]
        ELSE [found |-> TRUE, index |-> Min(ps) - 1,
              len |-> LegendLenAt(data, Min(ps))]

----------------------------------------------------------------------------
\* The end marker of line 160: CR LF, any number of SGR sequences (ESC [ ... m),
\* one or more HR, any number of SGR sequences, CR LF; the leftmost match.

\* position after the SGR sequences matched greedily from p
RECURSIVE AnsiSkip(_, _)
AnsiSkip(s, p) ==
    IF p + 1 <= Len(s) /\ s[p] = "ESC" /\ s[p + 1] = "["
    THEN LET ms == {k \in (p + 2)..Len(s) : s[k] = "m"}
         IN  IF ms = {} THEN p ELSE AnsiSkip(s, Min(ms) + 1)
    ELSE p

\* position after the run of HR that starts at p
RECURSIVE HrSkip(_, _)
HrSkip(s, p) == IF p <= Len(s) /\ s[p] = "HR" THEN HrSkip(s, p + 1) ELSE p

\* length of the match that starts at 1-based p, 0 when there is none
EndLenAt(s, p) ==
    IF ~(p + 1 <= Len(s) /\ s[p] = "CR" /\ s[p + 1] = "LF") THEN 0
    ELSE LET a == AnsiSkip(s, p + 2)
             h == HrSkip(s, a)
             b == AnsiSkip(s, h)
         IN  IF h > a /\ b + 1 <= Len(s) /\ s[b] = "CR" /\ s[b + 1] = "LF"
             THEN b + 2 - p ELSE 0

EndExec(s) ==
    LET ps == {p \in 1..Len(s) : EndLenAt(s, p) > 0}
    IN  IF ps = {} THEN [found |-> FALSE, index |-> 0, len |-> 0]
        ELSE [found |-> TRUE, index |-> Min(ps) - 1,
              len |-> EndLenAt(s, Min(ps))]

----------------------------------------------------------------------------
\* The splitter of line 165: split on every whole line that contains HR, the
\* separators kept (capture group), the piece before the first one dropped.

\* the sticky match at 1-based q: a whole line that contains HR
HeaderAt(s, q) ==
    /\ q <= Len(s)
    /\ LineStart(s, q)
    /\ \E k \in q..(LineEnd(s, q) - 1) : s[k] = "HR"

\* RegExp.prototype[Symbol.split]: p is the start of the pending piece, q the scan
RECURSIVE SplitFrom(_, _, _)
SplitFrom(s, p, q) ==
    IF q > Len(s) THEN <<SubSeq(s, p, Len(s))>>
    ELSE IF HeaderAt(s, q)
         THEN <<SubSeq(s, p, q - 1), SubSeq(s, q, LineEnd(s, q) - 1)>>
                  \o SplitFrom(s, LineEnd(s, q), LineEnd(s, q))
         ELSE SplitFrom(s, p, q + 1)

\* [header, content, header, content, ...]
Parts(s) == Tail(SplitFrom(s, 1, 1))

----------------------------------------------------------------------------
\* Rendering of a replayed entry (line 74) and the control prefix (line 75).
\* The texts of this model hold no tab, no wide or zero-width character and no
\* escape sequence inside a stored entry, so a line's width is its length.

TabStop == 8

\* expandTabs(line): a tab becomes spaces up to the next tab stop
RECURSIVE ExpandFrom(_, _, _)
ExpandFrom(line, i, col) ==
    IF i > Len(line) THEN << >>
    ELSE IF line[i] = "TAB"
         THEN LET n == TabStop - (col % TabStop)
              IN  [k \in 1..n |-> " "] \o ExpandFrom(line, i + 1, col + n)
         ELSE <<line[i]>> \o ExpandFrom(line, i + 1, col + 1)

ExpandTabs(line) == ExpandFrom(line, 1, 0)

\* cliTruncate(line, columns), position "end"
CliTruncate(line, columns) ==
    IF columns < 1 THEN << >>
    ELSE IF columns = 1 THEN <<"ELL">>
    ELSE IF Len(line) <= columns THEN line
    ELSE SubSeq(line, 1, columns - 1) \o <<"ELL">>

\* data.replace(<every line>, line => cliTruncate(expandTabs(line), cols)):
\* CR and LF each end a line, so the two halves of CR LF enclose an empty line
RECURSIVE Render(_, _)
Render(data, columns) ==
    LET e == LineEnd(data, 1)
        line == CliTruncate(ExpandTabs(SubSeq(data, 1, e - 1)), columns)
    IN  IF e > Len(data) THEN line
        ELSE line \o <<data[e]>> \o Render(SubSeq(data, e + 1, Len(data)), columns)

ClearScreen == <<"ESC", "c">>
CursorHide == <<"ESC", "[", "?", "2", "5", "l">>

ReplayData(entry, columns) == ClearScreen \o CursorHide \o Render(entry, columns)

----------------------------------------------------------------------------
\* The banners of lines 128 and 132, tested on stripAnsi(data).

GefBanner ==
    <<"G", "E", "F", " ", "f", "o", "r", " ", "l", "i", "n", "u", "x", " ",
      "r", "e", "a", "d", "y">>
PwndbgBanner ==
    <<"p", "w", "n", "d", "b", "g", ":", " ", "l", "o", "a", "d", "e", "d", " ">>

Digits == {"0", "1", "2", "3", "4", "5", "6", "7", "8", "9"}
Letters ==
    {"a", "b", "c", "d", "e", "f", "g", "h", "i", "j", "k", "l", "m", "n", "o",
     "p", "q", "r", "s", "t", "u", "v", "w", "x", "y", "z",
     "A", "B", "C", "D", "E", "F", "G", "H", "I", "J", "K", "L", "M", "N", "O",
     "P", "Q", "R", "S", "T", "U", "V", "W", "X", "Y", "Z"}

IsDigit(c) == c \in Digits

Max(S) == CHOOSE x \in S : \A y \in S : x >= y

\* stripAnsi(data) removes every match of the expression of ansi-regex (5.0.1,
\* which strip-ansi 6 resolves to):
\*   an introducer ESC or CSI, any number of the characters [ ] ( ) # ; ?
\*   and then either
\*     nothing, or any number of fields that start with ; and hold one or more
\*     of letters, digits and - / # & . : = ? % @ ~ _ , or one or more letters
\*     and digits and then any number of fields that start with ; and hold
\*     any number of those characters; then BEL
\*   or
\*     optionally 1 to 4 digits and any number of fields that start with ; and
\*     hold 0 to 4 digits, then one final character: a digit, A-P, R-T, Z, c,
\*     f-n, q, r, t, y, = > < ~
\* with every repetition greedy and the first alternative tried first.

AnsiIntroducers == {"ESC", "CSI"}
AnsiPrefixChars == {"[", "]", "(", ")", "#", ";", "?"}
AnsiFinals ==
    Digits \cup {"A", "B", "C", "D", "E", "F", "G", "H", "I", "J", "K", "L", "M",
                 "N", "O", "P", "R", "S", "T", "Z", "c", "f", "g", "h", "i", "j",
                 "k", "l", "m", "n", "q", "r", "t", "y", "=", ">", "<", "~"}
OscFieldChars ==
    Letters \cup Digits \cup {"-", "/", "#", "&", ".", ":", "=", "?", "%", "@", "~", "_"}

\* the length of the run of characters of set S that starts at 1-based p
RECURSIVE RunLen(_, _, _)
RunLen(s, p, S) == IF p <= Len(s) /\ s[p] \in S THEN 1 + RunLen(s, p + 1, S) ELSE 0

\* at most 4 digits are taken for one field
MaxParamDigits == 4

DigitRun(s, p) ==
    IF RunLen(s, p, Digits) > MaxParamDigits THEN MaxParamDigits
    ELSE RunLen(s, p, Digits)

\* the fields that start with ; and the final character, from p: the position
\* after the final character of the first match in backtracking order, 0 when
\* there is none
RECURSIVE ParamSkip(_, _)
ParamSkip(s, p) ==
    LET ok == IF p <= Len(s) /\ s[p] = ";"
              THEN {d \in 0..DigitRun(s, p + 1) : ParamSkip(s, p + 1 + d) > 0}
              ELSE {}
    IN  IF ok # {} THEN ParamSkip(s, p + 1 + Max(ok))
        ELSE IF p <= Len(s) /\ s[p] \in AnsiFinals THEN p + 1
        ELSE 0

\* the second alternative at q: position after its match, 0 when there is none
ParamEnd(s, q) ==
    LET ok == {d \in 1..DigitRun(s, q) : ParamSkip(s, q + d) > 0}
    IN  IF ok # {} THEN ParamSkip(s, q + Max(ok))
        ELSE IF q <= Len(s) /\ s[q] \in AnsiFinals THEN q + 1
        ELSE 0

\* what the first alternative takes before a BEL at b, from q: nothing, or
\* fields that each start with ; and hold a character, or a text that starts
\* with a letter or digit and goes on, from its first ; , with fields that may
\* be empty
OscBody(s, q, b) ==
    \/ b = q
    \/ /\ s[q] = ";"
       /\ \A k \in q..(b - 1) :
              IF s[k] = ";" THEN k + 1 <= b - 1 /\ s[k + 1] \in OscFieldChars
              ELSE s[k] \in OscFieldChars
    \/ /\ s[q] \in Letters \cup Digits
       /\ \A k \in q..(b - 1) :
              \/ s[k] \in Letters \cup Digits
              \/ /\ s[k] \in OscFieldChars \cup {";"}
                 /\ \E j \in q..k : s[j] = ";"

\* the first alternative at q: position after its match, 0 when there is none.
\* No character it takes is BEL, so it ends at the first BEL from q.
OscEnd(s, q) ==
    LET ends == {b + 1 : b \in {c \in q..Len(s) :
                                    /\ s[c] = "BEL"
                                    /\ \A j \in q..(c - 1) : s[j] # "BEL"
                                    /\ OscBody(s, q, c)}}
    IN  IF ends = {} THEN 0 ELSE CHOOSE e \in ends : TRUE

\* the match with k prefix characters taken after the introducer at p
AnsiEndWith(s, p, k) ==
    IF OscEnd(s, p + 1 + k) > 0 THEN OscEnd(s, p + 1 + k) ELSE ParamEnd(s, p + 1 + k)

\* the match that starts at p: position after it, 0 when there is none
AnsiEndAt(s, p) ==
    IF s[p] \notin AnsiIntroducers THEN 0
    ELSE LET ok == {k \in 0..RunLen(s, p + 1, AnsiPrefixChars) :
                        AnsiEndWith(s, p, k) > 0}
         IN  IF ok = {} THEN 0 ELSE AnsiEndWith(s, p, Max(ok))

\* stripAnsi(data), line 127
RECURSIVE StripAnsi(_)
StripAnsi(s) ==
    IF s = << >> THEN << >>
    ELSE IF AnsiEndAt(s, 1) > 0
         THEN StripAnsi(SubSeq(s, AnsiEndAt(s, 1), Len(s)))
         ELSE <<s[1]>> \o StripAnsi(Tail(s))

----------------------------------------------------------------------------
\* The program state, as one record s:
\*   index, records            Hyperpwn's fields (lines 33-34); NullIndex is null
\*   uidViews                  the registry of line 13
\*   built                     whether hyperpwn holds an object: the module is
\*                             loaded with hyperpwn undefined (line 10) and
\*                             every Terms component constructed assigns
\*                             a new Hyperpwn() to it (line 217)
\*   order                     the key order of uidViews: a uid enters it on its
\*                             first announcement (142)
\*   tracked                   the key order of this.records: a uid enters it
\*                             on its first addUid on this object (40)
\*   store                     whether this.store has been set (line 49)
\*   contextStart, contextData the detector's flag and buffer (lines 11-12)
\*   cols                      the host's sessions.sessions[uid].cols (line 86)
\* and what one event did:
\*   log                       the next(action) calls, in call order; via tells
\*                             the host's action from one dispatched by the
\*                             handler itself
\*   threw                     the handler ended in a TypeError or a copy error
\*   why                       what threw: "hyperpwn" (undefined), "records" (no
\*                             key for the uid), "entry" (no entry at the
\*                             cursor), "store" (this.store undefined), "copy"
\*   dispatches                how many actions the handler dispatched itself
\*   blocks                    the bodies of the blocks completed (line 164)
\*   appended                  addData calls per uid since the model started

Uids == {"u1", "u2"}

NullIndex == -1

IsInteger(i) == i # NullIndex

\* a null operand of < or + converts to 0
Num(i) == IF i = NullIndex THEN 0 ELSE i

Range(f) == {f[i] : i \in DOMAIN f}

\* the handler ends in an exception; why names the expression that threw
Throw(s, why) == [s EXCEPT !.threw = TRUE, !.why = why]

\* next(action), with action.data as the handler left it
Forward(s, a, data) ==
    [s EXCEPT !.log = Append(@, [type |-> a.type, uid |-> a.uid, data |-> data,
                                 via |-> a.via])]

\* addUid(uid), line 39
AddUid(s, uid) ==
    IF ~s.built THEN Throw(s, "hyperpwn")       \* hyperpwn is undefined
    ELSE [s EXCEPT !.records[uid] = << >>,
                   !.tracked = IF uid \in Range(@) THEN @ ELSE Append(@, uid)]

\* addData(uid, data), line 43
AddData(s, uid, data) ==
    IF s.threw THEN s
    ELSE IF ~s.built THEN Throw(s, "hyperpwn")  \* hyperpwn is undefined
    ELSE IF uid \notin Range(s.tracked)
    THEN Throw(s, "records")                    \* this.records[uid] is undefined
    ELSE [s EXCEPT !.records[uid] = Append(@, data),
                   !.index = Len(s.records[uid]),
                   !.appended[uid] = @ + 1]

\* checkRecordLength(), line 52: the common length, or -1 for null (lengths
\* differ) and for undefined (records has no key)
CheckRecordLength(s) ==
    IF s.tracked = << >> THEN -1
    ELSE LET first == Len(s.records[s.tracked[1]])
         IN  IF \A i \in 1..Len(s.tracked) : Len(s.records[s.tracked[i]]) = first
             THEN first ELSE -1

\* the truthiness of a checkRecordLength() result
Truthy(len) == len > 0

RECURSIVE Middleware(_, _)

\* replayUid(uid, cols), line 71
ReplayUid(s, uid, columns) ==
    IF s.threw THEN s
    ELSE IF uid \in Range(s.tracked) /\ IsInteger(s.index)
    THEN IF s.index >= Len(s.records[uid])
         THEN Throw(s, "entry")             \* undefined.replace
         ELSE IF ~s.store
         THEN Throw(s, "store")             \* this.store is undefined
         ELSE Middleware([s EXCEPT !.dispatches = @ + 1],
                         [type |-> "SESSION_PTY_DATA", uid |-> uid,
                          data |-> ReplayData(s.records[uid][s.index + 1], columns),
                          cols |-> 0, copyOk |-> TRUE, via |-> "dispatch"])
    ELSE s

\* replay(), line 84: keys is Object.keys(this.records) taken before the loop
RECURSIVE ReplayFrom(_, _, _)
ReplayFrom(s, keys, i) ==
    IF s.threw \/ i > Len(keys) THEN s
    ELSE IF ~s.store THEN Throw(s, "store") \* this.store.getState()
    ELSE ReplayFrom(ReplayUid(s, keys[i], s.cols[keys[i]]), keys, i + 1)

Replay(s) == ReplayFrom(s, s.tracked, 1)

\* replayPrev(), line 91
ReplayPrev(s) ==
    LET len == CheckRecordLength(s)
    IN  IF Truthy(len) /\ Num(s.index) > 0 /\ Num(s.index) < len
        THEN Replay([s EXCEPT !.index = Num(s.index) - 1])
        ELSE s

\* replayNext() with its bound off by one: it steps past the last entry
ReplayNextPastLast(s) ==
    LET len == CheckRecordLength(s)
    IN  IF Truthy(len) /\ Num(s.index) < len
        THEN Replay([s EXCEPT !.index = Num(s.index) + 1])
        ELSE s

\* replayNext(), line 99
ReplayNext(s) ==
    LET len == CheckRecordLength(s)
    IN  IF Truthy(len) /\ Num(s.index) < len - 1
        THEN Replay([s EXCEPT !.index = Num(s.index) + 1])
        ELSE s

\* hyperpwn.replayLast(), lines 181 and 107; it is not reached when the
\* attribution threw
ReplayLast(s) ==
    LET len == CheckRecordLength(s)
    IN  IF s.threw THEN s
        ELSE IF ~s.built THEN Throw(s, "hyperpwn") \* hyperpwn is undefined
        ELSE IF Truthy(len) THEN Replay([s EXCEPT !.index = len - 1]) ELSE s

\* the forEach of lines 168-174 over keys = Object.keys(uidViews), from key k
RECURSIVE AttributeUids(_, _, _, _, _)
AttributeUids(r, header, content, keys, k) ==
    IF r.s.threw \/ k > Len(keys) THEN r
    ELSE IF Includes(header, r.s.uidViews[keys[k]])
         THEN AttributeUids(
                  [s |-> AddData(r.s, keys[k], Substr(content, 2, Len(content) - 4)),
                   found |-> TRUE],
                  header, content, keys, k + 1)
         ELSE AttributeUids(r, header, content, keys, k + 1)

\* the loop of lines 166-178 from pair i; r.data is action.data
RECURSIVE AttributeParts(_, _, _)
AttributeParts(r, parts, i) ==
    IF r.s.threw \/ i > Len(parts) THEN r
    ELSE LET u == AttributeUids([s |-> r.s, found |-> FALSE],
                                parts[i], parts[i + 1], r.s.order, 1)
         IN  AttributeParts(
                 [s |-> u.s,
                  data |-> IF u.found THEN r.data ELSE r.data \o parts[i] \o parts[i + 1]],
                 parts, i + 2)

\* lines 159-185, entered with contextStart true; data is action.data
ContextEnd(s, a, data) ==
    LET end == EndExec(s.contextData)
    IN  IF ~end.found
        THEN IF data = << >> THEN s ELSE Forward(s, a, data)
        ELSE LET tailData == SubstrFrom(s.contextData, end.index + end.len)
                 body == SubSeq(s.contextData, 1, end.index)
                 closed == [s EXCEPT !.contextStart = FALSE,
                                     !.contextData = body,
                                     !.blocks = Append(@, body)]
                 r == AttributeParts([s |-> closed, data |-> data], Parts(body), 1)
                 last == ReplayLast(r.s)
                 out == r.data \o tailData
             IN  IF last.threw \/ out = << >> THEN last ELSE Forward(last, a, out)

\* lines 138-186
PtyData(s, a) ==
    LET view == ViewExec(a.data)
        s1 == IF view.found
              THEN AddUid([s EXCEPT !.uidViews[a.uid] = view.name,
                                    !.order = IF a.uid \in Range(@) THEN @
                                              ELSE Append(@, a.uid)],
                          a.uid)
              ELSE s
        d1 == IF view.found THEN CursorHide ELSE a.data
        s2 == IF s1.contextStart THEN [s1 EXCEPT !.contextData = @ \o a.data] ELSE s1
        d2 == IF s1.contextStart THEN << >> ELSE d1
        legend == LegendExec(a.data)
        s3 == IF legend.found
              THEN [s2 EXCEPT !.contextStart = TRUE,
                              !.contextData = SubstrFrom(a.data, legend.index + legend.len)]
              ELSE s2
        d3 == IF legend.found THEN SubSeq(a.data, 1, legend.index) ELSE d2
    IN  IF s1.threw THEN s1
        ELSE IF s3.contextStart THEN ContextEnd(s3, a, d3) ELSE Forward(s3, a, d3)

\* loadLayout(name), line 61: copySync throws when the copy fails
LoadLayout(s, a) ==
    IF s.threw THEN s
    ELSE IF ~a.copyOk THEN Throw(s, "copy")
    ELSE Middleware([s EXCEPT !.dispatches = @ + 1],
                    [type |-> "HYPERINATOR_LOAD", uid |-> a.uid,
                     data |-> << >>, cols |-> 0, copyOk |-> TRUE,
                     via |-> "dispatch"])

\* hyperpwn.setStore(store) and hyperpwn.loadLayout(name), lines 129-130 and
\* 133-134
SetStoreAndLoad(s, a) ==
    IF ~s.built THEN Throw(s, "hyperpwn")       \* hyperpwn is undefined
    ELSE LoadLayout([s EXCEPT !.store = TRUE], a)

\* lines 125-136
AddDataEvent(s, a) ==
    LET stripped == StripAnsi(a.data)
        s1 == IF Includes(stripped, GefBanner)
              THEN SetStoreAndLoad(s, a) ELSE s
        s2 == IF ~s1.threw /\ Includes(stripped, PwndbgBanner)
              THEN SetStoreAndLoad(s1, a) ELSE s1
    IN  IF s2.threw THEN s2 ELSE Forward(s2, a, a.data)

\* exports.middleware, line 116: one action through the handler
Middleware(s, a) ==
    IF s.threw THEN s
    ELSE CASE a.type = "SESSION_ADD_DATA" -> AddDataEvent(s, a)
           [] a.type = "SESSION_PTY_DATA" -> PtyData(s, a)
           [] a.type = "SESSION_RESIZE" ->
                LET r == IF ~s.built THEN Throw(s, "hyperpwn") \* hyperpwn is undefined
                         ELSE ReplayUid(s, a.uid, a.cols)
                IN  IF r.threw THEN r ELSE Forward(r, a, a.data)
           [] OTHER -> Forward(s, a, a.data)

----------------------------------------------------------------------------
\* The inputs: debugger output delivered in chunks, announcements, banners.

CRLF == <<"CR", "LF">>
RuleA == <<"HR", "a">>
RuleB == <<"HR", "b">>
RuleZ == <<"HR", "z">>
RuleAB == <<"HR", "a", "b", "HR">>
EndPlain == CRLF \o <<"HR", "HR">> \o CRLF
EndStyled == CRLF \o <<"ESC", "[", "1", "m", "HR", "ESC", "[", "m">> \o CRLF

\* each text: what precedes the start marker, the marker, the block, the end
\* marker, what follows it
NoText == [pre |-> << >>, start |-> << >>, body |-> << >>, end |-> << >>, post |-> << >>]
\* the views of two panes
TextTwo ==
    [pre |-> <<"o">> \o CRLF,
     start |-> LegendWord,
     body |-> <<"x">> \o CRLF \o RuleA \o CRLF \o <<"1", "2">> \o CRLF
                  \o RuleB \o CRLF \o <<"3", "4", "5", "6">>,
     end |-> EndPlain,
     post |-> <<"t">>]
\* a view that no pane shows
TextStray ==
    [pre |-> <<"p">> \o CRLF,
     start |-> LegendWord,
     body |-> CRLF \o RuleA \o CRLF \o <<"1">> \o CRLF \o RuleZ \o CRLF \o <<"9">>,
     end |-> EndPlain,
     post |-> <<"q">>]
\* a header that holds the names of both panes
TextBoth ==
    [pre |-> << >>,
     start |-> <<"[", " ", "L", "e", "g", "e", "n", "d", ":">>,
     body |-> CRLF \o RuleAB \o CRLF \o <<"7", "8">> \o CRLF,
     end |-> EndStyled,
     post |-> << >>]
\* two segments of the same view in one block
TextTwice ==
    [pre |-> << >>,
     start |-> LegendWord,
     body |-> CRLF \o RuleA \o CRLF \o <<"1">> \o CRLF \o RuleA \o CRLF \o <<"2", "2", "2">>,
     end |-> EndPlain,
     post |-> << >>]
\* a block whose end marker has not arrived yet
TextOpen ==
    [pre |-> << >>,
     start |-> LegendWord,
     body |-> CRLF \o RuleA \o CRLF \o <<"5">>,
     end |-> << >>,
     post |-> << >>]
\* the rest of such a block
TextClose ==
    [pre |-> << >>,
     start |-> << >>,
     body |-> <<"6", "6">> \o CRLF,
     end |-> EndPlain,
     post |-> <<"r">>]

\* two segments of a view that both panes show, the first a line that holds
\* the letter m followed by a line break
TextM ==
    [pre |-> << >>,
     start |-> LegendWord,
     body |-> CRLF \o RuleAB \o CRLF \o <<"m">> \o CRLF \o CRLF
                  \o RuleAB \o CRLF \o <<"2">> \o CRLF,
     end |-> EndPlain,
     post |-> << >>]
\* a block whose chunk ends inside the end marker, after the introducer of a
\* styling sequence
TextHalf ==
    [pre |-> << >>,
     start |-> LegendWord,
     body |-> CRLF \o RuleA \o CRLF \o <<"HR", "ESC", "[">>,
     end |-> << >>,
     post |-> << >>]

Texts == {TextTwo, TextStray, TextBoth, TextTwice, TextOpen, TextClose, TextM, TextHalf}

\* the texts with one start marker followed by one end marker
OneBlockTexts == {TextTwo, TextStray, TextBoth, TextTwice, TextM}

Whole(t) == t.pre \o t.start \o t.body \o t.end \o t.post

\* the positions of t where one of its five parts ends
FieldEnds(t) ==
    {Len(t.pre), Len(t.pre \o t.start), Len(t.pre \o t.start \o t.body),
     Len(t.pre \o t.start \o t.body \o t.end), Len(Whole(t))}

\* the view name each pane announces
NameOf(u) == IF u = "u1" THEN <<"a">> ELSE <<"b">>

Announcement(name) == ViewPrefix \o name \o ViewSuffix

\* data of SESSION_ADD_DATA: the two banners, plain or coloured, a prompt, and
\* data whose escape sequences make or break a banner: an erase-line sequence
\* inside the banner, a parameter of five digits inside it, and ESC before it
\* (ESC G is a sequence), a sequence that ends in BEL, and one with an empty
\* field before BEL, which is no sequence
Banners ==
    {<<"ESC", "[", "3", "2", "m">> \o GefBanner \o <<"ESC", "[", "0", "m">>,
     PwndbgBanner \o <<"1">>,
     <<"$", " ">>,
     <<"G", "E", "F">> \o <<"ESC", "[", "2", "K">> \o SubSeq(GefBanner, 4, Len(GefBanner)),
     SubSeq(GefBanner, 1, 12) \o <<"ESC", "[", "1", "2", "3", "4", "5">>
         \o SubSeq(GefBanner, 13, Len(GefBanner)),
     <<"ESC">> \o GefBanner,
     <<"G", "E", "F", "ESC", "]", "0", ";", "t", "BEL">>
         \o SubSeq(GefBanner, 4, Len(GefBanner)),
     <<"G", "E", "F", "ESC", ";", "-", ";", "BEL">>
         \o SubSeq(GefBanner, 4, Len(GefBanner))}

ColsSet == {2, 80}

\* the pane the debugger runs in: its output and its banner arrive there
DebuggerPanes == {"u1"}

\* how the chunks cut a text: anywhere, or only where one of its parts ends
CutModes == {"any", "parts"}

\* the texts of one run, when they are cut anywhere and when at the parts
MaxCutTexts == 1
MaxTexts == 2
\* no event is handled once the buffer of an open block is longer than this
MaxBuf == 12

----------------------------------------------------------------------------
VARIABLES
    built,      \* whether hyperpwn holds an object
    tracked,    \* the keys of its records, in insertion order
    index, records, uidViews, order, store, contextStart, contextData,
    threw, why, dispatches, blocks, appended,
    sink,       \* the actions the handler dispatched that reached next, in order
    fwd,        \* whether the host's own action reached next
    out,        \* its data as forwarded, for an event that is not a chunk
    cuts,       \* how the chunks of this run cut the texts
    text,       \* the text being delivered
    src,        \* the session it arrives on
    pos,        \* how many of its characters have been delivered
    loaded,     \* how many texts have been started
    clean,      \* the detector was closed when the text started and only its
                \* chunks have been handled since
    pass,       \* the data forwarded for the chunks of the text, concatenated
    ev          \* the last event: its type, its session, the cursor before it

vars == <<built, tracked, index, records, uidViews, order, store, contextStart, contextData,
          threw, why, dispatches, blocks, appended, sink, fwd, out, cuts, text, src, pos, loaded, clean,
          pass, ev>>

\* the widths of the panes in the host's state
PaneCols == [u \in Uids |-> IF u = "u1" THEN 80 ELSE 2]

\* the program state as the record the operators work on, at the start of an event
Cur ==
    [built |-> built, tracked |-> tracked,
     index |-> index, records |-> records, uidViews |-> uidViews, order |-> order,
     store |-> store, contextStart |-> contextStart, contextData |-> contextData,
     cols |-> PaneCols, log |-> << >>, threw |-> FALSE, why |-> "none", dispatches |-> 0,
     blocks |-> blocks, appended |-> appended]

\* whether the host's own action reached next: it is then the last call
HostForwarded(s) == s.log # << >> /\ s.log[Len(s.log)].via = "host"

\* the data it carried
HostData(s) == IF HostForwarded(s) THEN s.log[Len(s.log)].data ELSE << >>

Commit(s) ==
    /\ built' = built
    /\ tracked' = s.tracked
    /\ index' = s.index
    /\ records' = s.records
    /\ uidViews' = s.uidViews
    /\ order' = s.order
    /\ store' = s.store
    /\ contextStart' = s.contextStart
    /\ contextData' = s.contextData
    /\ threw' = s.threw
    /\ why' = s.why
    /\ dispatches' = s.dispatches
    /\ blocks' = s.blocks
    /\ appended' = s.appended
    /\ sink' = SelectSeq(s.log, LAMBDA e : e.via = "dispatch")
    /\ fwd' = HostForwarded(s)

Action(type, uid, data, columns, copyOk) ==
    [type |-> type, uid |-> uid, data |-> data, cols |-> columns, copyOk |-> copyOk,
     via |-> "host"]

Init ==
    /\ built = FALSE
    /\ tracked = << >>
    /\ index = NullIndex
    /\ records = [u \in Uids |-> << >>]
    /\ uidViews = [u \in Uids |-> << >>]
    /\ order = << >>
    /\ store = FALSE
    /\ contextStart = FALSE
    /\ contextData = << >>
    /\ threw = FALSE
    /\ why = "none"
    /\ dispatches = 0
    /\ blocks = << >>
    /\ appended = [u \in Uids |-> 0]
    /\ sink = << >>
    /\ fwd = FALSE
    /\ out = << >>
    /\ cuts \in CutModes
    /\ text = NoText
    /\ src = "u1"
    /\ pos = 0
    /\ loaded = 0
    /\ clean = FALSE
    /\ pass = << >>
    /\ ev = [type |-> "init", uid |-> "u1", index0 |-> NullIndex]

\* no text is half delivered
Idle == pos = Len(Whole(text))

\* the debugger starts printing a text on session u
StartText(t, u) ==
    /\ Idle
    /\ loaded < (IF cuts = "any" THEN MaxCutTexts ELSE MaxTexts)
    /\ text' = t
    /\ src' = u
    /\ pos' = 0
    /\ loaded' = loaded + 1
    /\ clean' = ~contextStart
    /\ pass' = << >>
    /\ blocks' = << >>
    /\ threw' = FALSE
    /\ why' = "none"
    /\ dispatches' = 0
    /\ sink' = << >>
    /\ fwd' = FALSE
    /\ out' = << >>
    /\ ev' = [type |-> "start", uid |-> u, index0 |-> index]
    /\ UNCHANGED <<built, tracked, index, records, uidViews, order, store,
                   contextStart, contextData, appended, cuts>>

\* SESSION_PTY_DATA with the next n characters of the text
Chunk(n) ==
    /\ pos + n <= Len(Whole(text))
    /\ cuts = "any" \/ pos + n \in FieldEnds(text)
    /\ \E s \in {Middleware(Cur, Action("SESSION_PTY_DATA", src,
                                       SubSeq(Whole(text), pos + 1, pos + n), 0, TRUE))} :
           /\ Commit(s)
           /\ pass' = pass \o HostData(s)
    /\ pos' = pos + n
    /\ out' = << >>
    /\ ev' = [type |-> "chunk", uid |-> src, index0 |-> index]
    /\ UNCHANGED <<cuts, text, src, loaded, clean>>

\* SESSION_PTY_DATA with the announcement line of pane u
Announce(u) ==
    /\ Idle
    /\ contextStart => Len(contextData) <= MaxBuf
    /\ \E s \in {Middleware(Cur, Action("SESSION_PTY_DATA", u,
                                       Announcement(NameOf(u)), 0, TRUE))} :
           Commit(s) /\ out' = HostData(s)
    /\ clean' = FALSE
    /\ ev' = [type |-> "announce", uid |-> u, index0 |-> index]
    /\ UNCHANGED <<cuts, text, src, pos, loaded, pass>>

\* SESSION_ADD_DATA while the debugger starts; ok is whether the layout file
\* can be copied
SessionAddData(u, data, ok) ==
    /\ loaded = 0
    /\ \E s \in {Middleware(Cur, Action("SESSION_ADD_DATA", u, data, 0, ok))} :
           Commit(s) /\ out' = HostData(s)
    /\ ev' = [type |-> "adddata", uid |-> u, index0 |-> index]
    /\ UNCHANGED <<cuts, text, src, pos, loaded, clean, pass>>

\* SESSION_RESIZE of pane u to c columns
SessionResize(u, c) ==
    /\ Idle
    /\ contextStart => Len(contextData) <= MaxBuf
    /\ \E s \in {Middleware(Cur, Action("SESSION_RESIZE", u, << >>, c, TRUE))} :
           /\ Commit(s)
           /\ out' = HostData(s)
    /\ clean' = FALSE
    /\ ev' = [type |-> "resize", uid |-> u, index0 |-> index]
    /\ UNCHANGED <<cuts, text, src, pos, loaded, pass>>

\* the constructor of the component of decorateTerms, line 217: hyperpwn is
\* a new object, with no history, no cursor and no store; the module's
\* uidViews, contextStart and contextData stay.  onDecorated registers the
\* commands of the new object in the same render.
NewTerms ==
    /\ Idle
    /\ built' = TRUE
    /\ tracked' = << >>
    /\ index' = NullIndex
    /\ records' = [u \in Uids |-> << >>]
    /\ store' = FALSE
    /\ threw' = FALSE
    /\ why' = "none"
    /\ dispatches' = 0
    /\ sink' = << >>
    /\ fwd' = FALSE
    /\ out' = << >>
    /\ clean' = FALSE
    /\ ev' = [type |-> "construct", uid |-> "u1", index0 |-> index]
    /\ UNCHANGED <<uidViews, order, contextStart, contextData, blocks, appended,
                   cuts, text, src, pos, loaded, pass>>

\* the command pwn:replayprev, registered by onDecorated (line 227)
CmdReplayPrev ==
    /\ built
    /\ Idle
    /\ contextStart => Len(contextData) <= MaxBuf
    /\ \E s \in {ReplayPrev(Cur)} : Commit(s)
    /\ out' = << >>
    /\ clean' = FALSE
    /\ ev' = [type |-> "prev", uid |-> "u1", index0 |-> index]
    /\ UNCHANGED <<cuts, text, src, pos, loaded, pass>>

\* the command pwn:replaynext, registered by onDecorated (line 228)
CmdReplayNext ==
    /\ built
    /\ Idle
    /\ contextStart => Len(contextData) <= MaxBuf
    /\ \E s \in {ReplayNext(Cur)} : Commit(s)
    /\ out' = << >>
    /\ clean' = FALSE
    /\ ev' = [type |-> "next", uid |-> "u1", index0 |-> index]
    /\ UNCHANGED <<cuts, text, src, pos, loaded, pass>>

Next ==
    \/ NewTerms
    \/ \E t \in Texts, u \in DebuggerPanes : StartText(t, u)
    \/ \E n \in 1..Len(Whole(text)) : Chunk(n)
    \/ \E u \in Uids : Announce(u)
    \/ \E u \in DebuggerPanes, data \in Banners, ok \in BOOLEAN :
           SessionAddData(u, data, ok)
    \/ \E u \in Uids, c \in ColsSet : SessionResize(u, c)
    \/ CmdReplayPrev
    \/ CmdReplayNext

Spec == Init /\ [][Next]_vars

----------------------------------------------------------------------------
\* Helpers of the properties.

IsPrefix(p, s) == Len(p) <= Len(s) /\ SubSeq(s, 1, Len(p)) = p
IsSuffix(p, s) == Len(p) <= Len(s) /\ SubSeq(s, Len(s) - Len(p) + 1, Len(s)) = p

\* the registered sessions: those announced to the object hyperpwn holds, which
\* have a name in uidViews (line 142) and a history in its records (line 40)
Registered == {u \in Range(order) : u \in Range(tracked)}

\* the program state after the first construction
Fresh ==
    [built |-> TRUE, tracked |-> << >>,
     index |-> NullIndex, records |-> [u \in Uids |-> << >>],
     uidViews |-> [u \in Uids |-> << >>], order |-> << >>, store |-> FALSE,
     contextStart |-> FALSE, contextData |-> << >>, cols |-> PaneCols,
     log |-> << >>, threw |-> FALSE, why |-> "none", dispatches |-> 0, blocks |-> << >>,
     appended |-> [u \in Uids |-> 0]]

\* the block bodies completed when the whole of t arrives as one chunk
OneChunkBlocks(t) ==
    Middleware(Fresh, Action("SESSION_PTY_DATA", "u1", Whole(t), 0, TRUE)).blocks

\* a text has been delivered to a detector that was closed when it started, and
\* nothing but its chunks has been handled since
Delivered == loaded > 0 /\ Idle /\ clean

----------------------------------------------------------------------------
\* C1: a text with one start marker followed by one end marker completes exactly
\* one block, whose body is the one completed when the text arrives as a single
\* chunk, however the text is cut into chunks.
C1_OneBlockAnyCut ==
    (Delivered /\ text \in OneBlockTexts)
        => (Len(blocks) = 1 /\ blocks = OneChunkBlocks(text))

\* C2: for a text with one block, the data forwarded for its chunks starts
\* with the text before the start marker, ends with the text after the end
\* marker, and holds no segment that was attributed to a history.
C2_PassThroughAroundBlock ==
    (Delivered /\ text \in OneBlockTexts)
        => /\ IsPrefix(text.pre, pass)
           /\ IsSuffix(text.post, pass)
           /\ Len(pass) >= Len(text.pre) + Len(text.post)
           /\ \A u \in Registered : \A i \in 1..Len(records[u]) :
                  records[u][i] # << >> => ~Includes(pass, records[u][i])

\* the step is the command pwn:replayprev, pwn:replaynext, or a chunk's handler
\* (every action records its kind in ev)
PrevStep == ev'.type = "prev"
NextStep == ev'.type = "next"
ChunkStep == ev'.type = "chunk"

\* the histories of two registered sessions differ in length
Diverged == \E u, v \in Registered : Len(records[u]) # Len(records[v])

\* the command changed neither the cursor nor anything else, and dispatched nothing
NoOp ==
    /\ dispatches' = 0 /\ sink' = << >> /\ ~threw'
    /\ UNCHANGED <<tracked, index, records, uidViews, order, store, contextStart, contextData>>

\* C3: replayPrev at cursor 0 and replayNext at the last index change nothing
\* and emit nothing, and so do both whenever two registered sessions' histories
\* differ in length.
C3_NavigationBounds ==
    [][/\ (PrevStep /\ index = 0) => NoOp
       /\ (NextStep /\ Truthy(CheckRecordLength(Cur))
             /\ index = CheckRecordLength(Cur) - 1) => NoOp
       /\ ((PrevStep \/ NextStep) /\ Diverged) => NoOp]_vars

\* replayPrev has been refused at cursor 0 although an earlier entry could be
\* replayed from any later cursor
C3_Witness ==
    /\ ev.type = "prev" /\ ev.index0 = 0 /\ index = 0
    /\ store /\ ~contextStart
    /\ CheckRecordLength(Cur) >= 2

\* the replay of an entry to session u for a pane c columns wide, as an action
\* that reached next
ReplayOf(entry, u, c) ==
    [type |-> "SESSION_PTY_DATA", uid |-> u, data |-> ReplayData(entry, c),
     via |-> "dispatch"]

\* the chunk of such a step
ChunkOf == SubSeq(Whole(text), pos + 1, pos')

\* C4: whenever replayPrev, replayNext or replayLast changes the cursor, every
\* registered session receives at its sink one replay of its entry at the new
\* cursor, whether the detector is closed or open.  (Stated for the runs in
\* which a banner has set the store; replayLast is the only writer of the cursor
\* in a chunk's step that appends nothing.)
C4_CursorChangeReplaysAll ==
    [][(/\ store
        /\ \/ PrevStep
           \/ NextStep
           \/ ChunkStep /\ appended' = appended
        /\ index' # index)
       => \A u \in Registered :
              /\ index' < Len(records'[u])
              /\ Len(SelectSeq(sink', LAMBDA e : e.uid = u)) = 1
              /\ \E k \in 1..Len(sink') :
                     sink'[k] = ReplayOf(records'[u][index' + 1], u, PaneCols[u])]_vars

\* C5: a history is append-only: it never loses or changes an entry, and it
\* holds as many entries as segments were appended to it.
C5_AppendOnly ==
    [][\A u \in Uids :
           /\ IsPrefix(records[u], records'[u])
           /\ Len(records'[u]) = appended'[u]]_vars

\* session u has no entry at the cursor
NoEntry(u) == u \notin Registered \/ ~IsInteger(index) \/ index >= Len(records[u])

\* C6: a resize of a session that has no entry at the cursor, and a navigation
\* while some registered session has none, raise no exception and emit no
\* replay; the resize action is still forwarded.
C6_NoHistoryIsSilent ==
    [][/\ \A u \in Uids, c \in ColsSet :
              (SessionResize(u, c) /\ NoEntry(u))
                  => (~threw' /\ dispatches' = 0 /\ fwd')
       /\ ((PrevStep \/ NextStep) /\ \E u \in Registered : NoEntry(u))
              => (~threw' /\ dispatches' = 0)]_vars

\* the sessions, among the keys of uidViews, whose view name the header holds
NamedBy(header) == {u \in Range(order) : Includes(header, uidViews[u])}

\* a content with its two leading and its two trailing characters removed
Trimmed(content) == SubSeq(content, 3, Len(content) - 2)

\* the text around the block of a one-block text, as far as position p
Around(t, p) ==
    LET blockEnd == Len(t.pre \o t.start \o t.body \o t.end)
    IN  IF p <= Len(t.pre) THEN SubSeq(t.pre, 1, p)
        ELSE IF p <= blockEnd THEN t.pre
        ELSE t.pre \o SubSeq(t.post, 1, p - blockEnd)

\* C7: a completed block of two (header, content) pairs whose headers name two
\* different sessions of uidViews appends to each of the two exactly its content
\* without the two leading and the two trailing characters, appends to no other
\* session, and passes nothing of the block downstream: what has been forwarded
\* of the text is a prefix of the text around the block.
C7_TwoPairsRoundTrip ==
    [][(ChunkStep /\ Len(blocks') = Len(blocks) + 1)
       => \A parts \in {Parts(blocks'[Len(blocks')])} :
              \A u, v \in Range(order) :
                  (/\ Len(parts) = 4
                   /\ u # v
                   /\ NamedBy(parts[1]) = {u}
                   /\ NamedBy(parts[3]) = {v})
                  => /\ records'[u] = Append(records[u], Trimmed(parts[2]))
                     /\ records'[v] = Append(records[v], Trimmed(parts[4]))
                     /\ \A w \in Uids \ {u, v} : records'[w] = records[w]
                     /\ (clean /\ text \in OneBlockTexts)
                            => IsPrefix(pass', text.pre \o text.post)]_vars

\* the pairs of parts, from pair i, whose header holds no view name of
\* uidViews, each as header followed by content
RECURSIVE Unnamed(_, _)
Unnamed(parts, i) ==
    IF i > Len(parts) THEN << >>
    ELSE (IF NamedBy(parts[i]) = {} THEN parts[i] \o parts[i + 1] ELSE << >>)
             \o Unnamed(parts, i + 2)

\* how many pairs of parts have a header that holds name
Naming(parts, name) ==
    Cardinality({i \in 1..Len(parts) : i % 2 = 1 /\ Includes(parts[i], name)})

\* C8: a pair whose header holds no view name registered in uidViews is
\* appended to no history and is passed downstream verbatim, header then
\* content, between the text before the start marker and the text after the
\* end marker.
C8_UnattributedPassesThrough ==
    (/\ Delivered /\ loaded = 1 /\ text \in OneBlockTexts /\ Len(blocks) = 1
     /\ Unnamed(Parts(blocks[1]), 1) # << >>)
    => /\ IsPrefix(text.pre, pass)
       /\ IsSuffix(text.post, pass)
       /\ \E k \in Len(text.pre)..(Len(pass) - Len(text.post)) :
              /\ k + Len(Unnamed(Parts(blocks[1]), 1)) <= Len(pass) - Len(text.post)
              /\ SubSeq(pass, k + 1, k + Len(Unnamed(Parts(blocks[1]), 1)))
                     = Unnamed(Parts(blocks[1]), 1)
       /\ \A u \in Registered :
              appended[u] = Naming(Parts(blocks[1]), uidViews[u])

\* C9: a SESSION_RESIZE of session s brings one replay of s's entry at the
\* cursor to s's sink, emits no replay to any other session and leaves the
\* cursor unchanged.  (Stated for the runs in which a banner has set the store.)
C9_ResizeReplaysOne ==
    [][\A u \in Uids, c \in ColsSet :
           (store /\ SessionResize(u, c) /\ ~NoEntry(u))
               => /\ sink' = <<ReplayOf(records[u][index + 1], u, c)>>
                  /\ dispatches' = 1
                  /\ index' = index]_vars

\* C10: a start marker in a chunk that arrives while a block is open is ignored
\* unless the block closes in that chunk: the detector stays open, the buffer
\* grows by the whole chunk, and nothing of the chunk goes downstream.
C10_StartMarkerWhileOpenIgnored ==
    [][(/\ ChunkStep
        /\ contextStart
        /\ LegendExec(ChunkOf).found
        /\ ~EndExec(contextData \o ChunkOf).found)
       => /\ contextStart'
          /\ contextData' = contextData \o ChunkOf
          /\ pass' = pass]_vars

\* a chunk's handler completed a block in this step
BlockStep == ChunkStep /\ Len(blocks') = Len(blocks) + 1

\* the first session in registration order whose view name the header holds
FirstNamed(header) ==
    LET named == {i \in 1..Len(order) : Includes(header, uidViews[order[i]])}
    IN  IF named = {} THEN {} ELSE {order[Min(named)]}

\* the entries a first-match attribution of parts gives session u, from pair i
RECURSIVE FirstMatchEntries(_, _, _)
FirstMatchEntries(parts, u, i) ==
    IF i > Len(parts) THEN << >>
    ELSE (IF u \in FirstNamed(parts[i]) THEN <<Trimmed(parts[i + 1])>> ELSE << >>)
             \o FirstMatchEntries(parts, u, i + 2)

\* C11: attribution is first-match-wins: each pair of a completed block is
\* appended to the history of at most one session, the first in registration
\* order whose view name is a substring of the header.
C11_FirstMatchWins ==
    [][BlockStep
       => \A parts \in {Parts(blocks'[Len(blocks')])} :
              \A u \in Registered :
                  records'[u] = records[u] \o FirstMatchEntries(parts, u, 1)]_vars

\* C12: while a completed block is processed a registered session's history
\* grows by exactly one entry when the block has a header naming the session,
\* and by none otherwise.
C12_OneEntryPerBlock ==
    [][BlockStep
       => \A parts \in {Parts(blocks'[Len(blocks')])} :
              \A u \in Registered :
                  Len(records'[u]) = Len(records[u])
                      + (IF Naming(parts, uidViews[u]) > 0 THEN 1 ELSE 0)]_vars

\* C13: after a completed block that appended a segment to some history, the
\* cursor refers to the latest entry and every registered session that has a
\* history entry receives a replay of its last one.  (Stated for the runs in
\* which a banner has set the store.)
C13_BlockReplaysLatest ==
    [][(store /\ BlockStep /\ appended' # appended)
       => \A u \in Registered :
              Len(records'[u]) > 0
              => /\ index' = Len(records'[u]) - 1
                 /\ \E k \in 1..Len(sink') :
                        sink'[k] = ReplayOf(records'[u][Len(records'[u])], u,
                                            PaneCols[u])]_vars

\* the step is the handling of an announcement line, of a SESSION_ADD_DATA
\* event, of a SESSION_RESIZE event
AnnounceStep == ev'.type = "announce"
AddDataStep == ev'.type = "adddata"
ResizeStep == ev'.type = "resize"

\* C14: a chunk that matches the announcement pattern stores the captured name
\* for its session, starts an empty history for it, and is forwarded downstream
\* as exactly the cursor-hide sequence.
C14_AnnouncementRegisters ==
    [][AnnounceStep
       => /\ uidViews'[ev'.uid] = NameOf(ev'.uid)
          /\ ev'.uid \in Range(order')
          /\ records'[ev'.uid] = << >>
          /\ fwd'
          /\ out' = CursorHide]_vars

\* C16: a failure of the layout installation started by a SESSION_ADD_DATA
\* event does not propagate: the handler raises nothing and the event is
\* forwarded to next.
C16_LayoutFailureContained ==
    [][AddDataStep => (~threw' /\ fwd')]_vars

\* C18: a chunk that arrives on a session while a block begun on another
\* session is open is forwarded downstream and is not added to the block.
C18_SessionsDoNotInterfere ==
    [][(AnnounceStep /\ loaded > 0 /\ contextStart /\ ev'.uid # src)
       => (fwd' /\ contextData' = contextData)]_vars

\* C19: replayPrev, replayNext and SESSION_RESIZE, with the replays they
\* dispatch, leave the histories, the registry of names, the detector's flag
\* and its buffer unchanged.
C19_ReplayFrame ==
    [][(PrevStep \/ NextStep \/ ResizeStep)
       => UNCHANGED <<records, uidViews, contextStart, contextData>>]_vars

\* C15: whenever the detector is closed the accumulation buffer is empty:
\* closing a block on an end marker resets the buffer.
C15_ClosedBufferEmpty == ~contextStart => contextData = << >>

\* C17: when all registered histories have the same non-zero length L the
\* cursor is an integer from 0 to L-1, and no replay of replayPrev, replayNext
\* or replayLast reads a missing entry.
C17_CursorInRange ==
    /\ Truthy(CheckRecordLength(Cur))
           => (IsInteger(index) /\ 0 <= index /\ index <= CheckRecordLength(Cur) - 1)
    /\ ev.type \in {"chunk", "prev", "next"} => why # "entry"

====
